---------------------------- MODULE Spec2Model ----------------------------
(***************************************************************************)
(* The hash engine of src/src/quantum_hash/core/simd_optimized.py and the  *)
(* Lamport one-time signature of src/src/quantum_hash/signatures/lamport.py *)
(* as a state machine.                                                      *)
(*                                                                         *)
(* An integer of the program is a little-endian sequence of 16-bit limbs,  *)
(* so that 32-bit and wider values are exact: Word(b3, b2, b1, b0) is the  *)
(* 32-bit value 0xb3b2b1b0.  A byte string (data, digest, secret) is a     *)
(* sequence of bytes.                                                       *)
(***************************************************************************)
EXTENDS Integers, Sequences, FiniteSets, TLC

(***************************************************************************)
(* Exact integer arithmetic on limb sequences.                              *)
(***************************************************************************)
Max(a, b) == IF a >= b THEN a ELSE b

Min(a, b) == IF a <= b THEN a ELSE b

Pow2(k) == 2 ^ k

\* a function with domain 1..n as an explicit tuple: every element is evaluated once
Tup(f) == f \o <<>>

(***************************************************************************)
(* Let(v, F) is F(v) with v evaluated once, before F: the model's way to   *)
(* write "w = v; ...w...w..." so that an assignment of the code is one      *)
(* evaluation.                                                              *)
(***************************************************************************)
Let(v, F(_)) == CHOOSE r \in {F(w) : w \in {v}} : TRUE

\* number of limbs of v
Size(v) == Cardinality(DOMAIN v)

\* limb k (1-based, least significant first) of v; 0 beyond its length
Limb(v, k) == IF k \in DOMAIN v THEN v[k] ELSE 0

Word(b3, b2, b1, b0) == <<b1 * 256 + b0, b3 * 256 + b2>>

\* a natural number < 2^31 as limbs
FromNat(n) == <<n % 65536, n \div 65536>>

\* bit k of z
BitOf(z, k) == (z \div Pow2(k)) % 2

XOR4 == [a \in 0..15 |-> [b \in 0..15 |->
            ((BitOf(a, 0) + BitOf(b, 0)) % 2)
          + ((BitOf(a, 1) + BitOf(b, 1)) % 2) * 2
          + ((BitOf(a, 2) + BitOf(b, 2)) % 2) * 4
          + ((BitOf(a, 3) + BitOf(b, 3)) % 2) * 8]]

OR4 == [a \in 0..15 |-> [b \in 0..15 |->
            Max(BitOf(a, 0), BitOf(b, 0))
          + Max(BitOf(a, 1), BitOf(b, 1)) * 2
          + Max(BitOf(a, 2), BitOf(b, 2)) * 4
          + Max(BitOf(a, 3), BitOf(b, 3)) * 8]]

\* p ^ q and p | q of two limbs, nibble by nibble
XorLimb(p, q) ==
      XOR4[p \div 4096][q \div 4096] * 4096
    + XOR4[(p \div 256) % 16][(q \div 256) % 16] * 256
    + XOR4[(p \div 16) % 16][(q \div 16) % 16] * 16
    + XOR4[p % 16][q % 16]

OrLimb(p, q) ==
      OR4[p \div 4096][q \div 4096] * 4096
    + OR4[(p \div 256) % 16][(q \div 256) % 16] * 256
    + OR4[(p \div 16) % 16][(q \div 16) % 16] * 16
    + OR4[p % 16][q % 16]

\* u ^ v
Xor(u, v) == [k \in 1..Max(Size(u), Size(v)) |-> XorLimb(Limb(u, k), Limb(v, k))]

\* u | v
Or(u, v) == [k \in 1..Max(Size(u), Size(v)) |-> OrLimb(Limb(u, k), Limb(v, k))]

\* v & 0xFFFFFFFF
And32(v) == <<Limb(v, 1), Limb(v, 2)>>

\* v & 0xFF
AndFF(v) == Limb(v, 1) % 256

\* carry propagation over a sequence of column sums in the given base
RECURSIVE Carry(_, _, _, _)
Carry(cols, base, i, c) ==
    IF i > Len(cols)
    THEN IF c = 0 THEN <<>> ELSE <<c % base>> \o Carry(cols, base, i, c \div base)
    ELSE <<(cols[i] + c) % base>> \o Carry(cols, base, i + 1, (cols[i] + c) \div base)

\* u + v
Add(u, v) ==
    Carry(Tup([k \in 1..Max(Size(u), Size(v)) |-> Limb(u, k) + Limb(v, k)]), 65536, 1, 0)

\* the bytes of the limbs of v, and back
Bytes(v) ==
    Tup([k \in 1..(2 * Size(v)) |->
            IF k % 2 = 1 THEN v[(k + 1) \div 2] % 256 ELSE v[k \div 2] \div 256])

Limbs(bs) == [k \in 1..((Len(bs) + 1) \div 2) |-> Limb(bs, 2 * k - 1) + 256 * Limb(bs, 2 * k)]

RECURSIVE ColSum(_, _, _, _)
ColSum(u, v, k, i) ==
    IF i > k \/ i > Len(u) THEN 0
    ELSE Limb(u, i) * Limb(v, k + 1 - i) + ColSum(u, v, k, i + 1)

\* u * v, by columns of byte products
MulBytes(u, v) == Carry(Tup([k \in 1..(Len(u) + Len(v)) |-> ColSum(u, v, k, 1)]), 256, 1, 0)

Mul(u, v) == Limbs(MulBytes(Bytes(u), Bytes(v)))

\* v << s
Shl(v, s) ==
    LET q == s \div 16
        r == s % 16
    IN  [k \in 1..(Size(v) + q + 1) |->
            ((Limb(v, k - q) * Pow2(r)) % 65536) + ((Limb(v, k - q - 1) * Pow2(r)) \div 65536)]

\* v >> s
Shr(v, s) ==
    LET q == s \div 16
        r == s % 16
    IN  [k \in 1..Max(Size(v) - q, 0) |->
            (Limb(v, k + q) \div Pow2(r)) + ((Limb(v, k + q + 1) % Pow2(r)) * Pow2(16 - r))]

(***************************************************************************)
(* The two evaluations of the arithmetic: "uint32" reduces every           *)
(* intermediate modulo 2^32 (fixed-width np.uint32 scalars); "exact" keeps *)
(* exact integers and masks only where the code writes & 0xFFFFFFFF.  A    *)
(* store into a dtype=np.uint32 array truncates in both.                   *)
(***************************************************************************)
Arith == {"uint32", "exact"}

Red(arith, v) == IF arith = "uint32" THEN And32(v) ELSE Tup(v)

Store(v) == And32(v)

\* lines 66-75: ((value << shift) | (value >> (32 - shift))) & 0xFFFFFFFF
rotate_left(arith, value, shift) ==
    And32(Or(Red(arith, Shl(value, shift)), Red(arith, Shr(value, 32 - shift))))

GOLDEN == Word(158, 55, 121, 185)

\* lines 78-90
mix_bits(arith, a0, b0) ==
    Let(And32(Add(a0, b0)), LAMBDA a1 :
    Let(And32(Xor(rotate_left(arith, b0, 13), a1)), LAMBDA b1 :
    Let(And32(Add(rotate_left(arith, a1, 7), b1)), LAMBDA a2 :
    Let(And32(Xor(rotate_left(arith, b1, 17), a2)), LAMBDA b2 :
    Let(And32(Add(a2, b2)), LAMBDA a3 :
    Let(Tup(Xor(rotate_left(arith, b2, 5), Red(arith, Mul(a3, GOLDEN)))), LAMBDA b3 :
        << Red(arith, Add(rotate_left(arith, a3, 11), rotate_left(arith, b3, 19))),
           b3 >> ))))))

(***************************************************************************)
(* Module-level tables (lines 49-63).  They are numpy arrays, hence        *)
(* mutable objects that every call reads; the operators take them as T.    *)
(***************************************************************************)
PRIMES0 == << Word(158, 55, 121, 185), Word(106, 9, 230, 103), Word(187, 103, 174, 133),
              Word(60, 110, 243, 114), Word(165, 79, 245, 58), Word(81, 14, 82, 127),
              Word(155, 5, 104, 140), Word(31, 131, 217, 171), Word(91, 224, 205, 25),
              Word(202, 98, 193, 214), Word(132, 202, 167, 59), Word(254, 148, 248, 43) >>

ROTATIONS0 == <<7, 11, 13, 17, 19, 23, 29, 31, 5, 3>>

EXTRA_PRIMES0 == << Word(36, 63, 106, 136), Word(133, 163, 8, 211), Word(19, 25, 138, 46),
                    Word(3, 112, 115, 68), Word(164, 9, 56, 34), Word(41, 159, 49, 208),
                    Word(8, 46, 250, 152), Word(236, 78, 108, 137), Word(69, 40, 33, 230),
                    Word(56, 208, 19, 119), Word(190, 84, 102, 207), Word(52, 233, 12, 108) >>

Tables0 == [PRIMES |-> PRIMES0, ROTATIONS |-> ROTATIONS0, EXTRA_PRIMES |-> EXTRA_PRIMES0]

\* tab[i % len(tab)]
Cyc(tab, i) == tab[(i % Len(tab)) + 1]

\* 0-based element access and store of a uint32 array
Get(st, i) == st[i + 1]

Put(st, i, v) == [st EXCEPT ![i + 1] = Store(v)]

(***************************************************************************)
(* Loops the code marks parallel (prange).  Under the njit(parallel=True)  *)
(* build their iterations run in an order the code does not fix; without   *)
(* numba prange is range.  A call's schedule names the order its prange    *)
(* loops run in: "fwd" is range(n), "rev" the reverse.                     *)
(***************************************************************************)
Scheds == {"fwd", "rev"}

Order(sched, n) == Tup([p \in 1..n |-> IF sched = "fwd" THEN p - 1 ELSE n - p])

\* range(n)
Range(n) == Tup([p \in 1..n |-> p - 1])

\* run Body(st, i) for the indices order[lo..hi], in that order
RECURSIVE Fold(_, _, _, _, _)
Fold(Body(_, _), order, lo, hi, st) ==
    IF lo > hi THEN st
    ELSE IF lo = hi THEN Body(st, order[lo])
    ELSE Let(Fold(Body, order, lo, (lo + hi) \div 2, st), LAMBDA s :
             Fold(Body, order, ((lo + hi) \div 2) + 1, hi, s))

\* "for i in order: st = Body(st, i)"
ForEach(Body(_, _), order, st) == Fold(Body, order, 1, Len(order), st)

\* the result of a call: a value returned, or an exception raised
Ok(v) == [exc |-> "none", value |-> v]

Raise(e) == [exc |-> e, value |-> <<>>]

\* the input taken as it is, empty or not
RemapNone(data) == data

\* if not data: data = b"\x00"
Remap(data) == IF Len(data) = 0 THEN <<0>> ELSE data

PaddedSize(len, unit) == ((len + unit - 1) \div unit) * unit

\* padded_data = bytearray(padded_size); padded_data[:len(data)] = data
Padded(data, unit) ==
    Tup([p \in 1..PaddedSize(Len(data), unit) |-> IF p <= Len(data) THEN data[p] ELSE 0])

\* chunk = 0; for j in range(4): chunk |= buf[at + j] << (j * 8), for at + j < len(buf)
LoadChunk(buf, at) ==
    Or(Or(Shl(<<Limb(buf, at + 1)>>, 0), Shl(<<Limb(buf, at + 2)>>, 8)),
       Or(Shl(<<Limb(buf, at + 3)>>, 16), Shl(<<Limb(buf, at + 4)>>, 24)))

\* (state[i] >> (j * 8)) & 0xFF
ByteOf(w, j) == AndFF(Shr(w, j * 8))

\* a, b = mix_bits(state[i], state[j]); state[i] = a; state[j] = b
MixPair(arith, st, i, j) ==
    Let(mix_bits(arith, Get(st, i), Get(st, j)), LAMBDA m :
        Put(Put(st, i, m[1]), j, m[2]))

(***************************************************************************)
(* numba_enhanced_grover_hash (lines 93-174)                               *)
(***************************************************************************)
\* line 111
GroverInit(T, digest_size) == Tup([p \in 1..digest_size |-> Cyc(T.PRIMES, p - 1)])

\* lines 113-129: the 32-bit little-endian chunks, then the length chunk
GroverChunks(data) ==
    LET pd == Padded(data, 4)
        nc == Len(pd) \div 4
    IN  Tup([c \in 1..(nc + 1) |->
            IF c <= nc THEN Store(LoadChunk(pd, 4 * (c - 1))) ELSE Store(FromNat(Len(data)))])

\* one round of lines 139-143
GroverRound(T, arith, ab, i, r) ==
    Let(mix_bits(arith, ab[1], ab[2]), LAMBDA m :
        << And32(Mul(m[1], Cyc(T.PRIMES, i + r))),
           rotate_left(arith, m[2], Cyc(T.ROTATIONS, r)) >>)

\* lines 135-145: the update of state word i by one chunk
GroverWord(T, arith, st, chunk, i) ==
    Let(<<Get(st, i), Xor(Xor(chunk, Cyc(T.PRIMES, i)), Cyc(T.EXTRA_PRIMES, i))>>, LAMBDA ab :
    Let(GroverRound(T, arith, ab, i, 0), LAMBDA r0 :
    Let(GroverRound(T, arith, r0, i, 1), LAMBDA r1 :
    Let(GroverRound(T, arith, r1, i, 2), LAMBDA r2 :
    Let(GroverRound(T, arith, r2, i, 3), LAMBDA r3 :
        Put(st, i, Xor(r3[1], r3[2])))))))

\* a diffusion of word i that reads the array being written instead of the snapshot
GroverDiffuseInPlace(arith, st, temp_state, i) ==
    LET n == Len(st)
        j == (i + 1) % n
        k == (i + n \div 2) % n
    IN  Let(Put(st, i, Xor(Xor(rotate_left(arith, Get(st, i), 5), Get(st, j)),
                           rotate_left(arith, Get(st, k), 13))), LAMBDA s1 :
            Put(s1, i, And32(Add(Get(s1, i), rotate_left(arith, Get(s1, i), 11)))))

\* lines 150-154: diffusion of word i from the snapshot temp_state
GroverDiffuse(arith, st, temp_state, i) ==
    LET n == Len(temp_state)
        j == (i + 1) % n
        k == (i + n \div 2) % n
    IN  Let(Put(st, i, Xor(Xor(rotate_left(arith, Get(temp_state, i), 5), Get(temp_state, j)),
                           rotate_left(arith, Get(temp_state, k), 13))), LAMBDA s1 :
            Put(s1, i, And32(Add(Get(s1, i), rotate_left(arith, Get(s1, i), 11)))))

\* lines 134-154 with the iterations of both loops run in the given order of the indices
GroverChunkIn(T, arith, order, state, chunk) ==
    Let(ForEach(LAMBDA st, i : GroverWord(T, arith, st, chunk, i), order, state),
        LAMBDA temp_state :
        ForEach(LAMBDA st, i : GroverDiffuse(arith, st, temp_state, i), order, temp_state))

\* lines 132-154: the body of "for chunk in chunks"
GroverChunkStep(T, arith, sched, state, chunk) ==
    GroverChunkIn(T, arith, Order(sched, Len(state)), state, chunk)

\* lines 158-165: final mixing round r
GroverFinalRound(arith, st, r) ==
    LET n == Len(st)
        i == r % n
        j == (i + 1) % n
        k == (i + n \div 2) % n
    IN  Let(MixPair(arith, st, i, j), LAMBDA s1 :
        Let(MixPair(arith, s1, j, k), LAMBDA s2 :
            MixPair(arith, s2, k, i)))

\* lines 157-165
GroverFinal(arith, state, digest_size) ==
    ForEach(LAMBDA st, r : GroverFinalRound(arith, st, r), Range(digest_size * 2), state)

\* lines 168-174: the state as bytes
GroverOutput(st, digest_size) ==
    Tup([p \in 1..digest_size |->
        IF (p - 1) \div 4 < Min(Len(st), digest_size \div 4)
        THEN ByteOf(Get(st, (p - 1) \div 4), (p - 1) % 4)
        ELSE 0])

numba_enhanced_grover_hash(T, arith, sched, data0, digest_size) ==
    Let(Remap(data0), LAMBDA data :
    Let(ForEach(LAMBDA st, chunk : GroverChunkStep(T, arith, sched, st, chunk),
                GroverChunks(data), GroverInit(T, digest_size)), LAMBDA absorbed :
    Let(GroverFinal(arith, absorbed, digest_size), LAMBDA final :
        Ok(GroverOutput(final, digest_size)))))

(***************************************************************************)
(* numba_enhanced_shor_hash (lines 195-287)                                *)
(***************************************************************************)
\* line 213
StateSize(digest_size) == (digest_size + 3) \div 4

\* line 214
ShorInit(T, state_size) == Tup([p \in 1..state_size |-> Cyc(T.PRIMES, p - 1)])

\* lines 220-227: the 64-byte blocks of the zero-padded data
ShorBlocks(data) ==
    LET pd == Padded(data, 64)
    IN  Tup([c \in 1..(Len(pd) \div 64) |-> SubSeq(pd, 64 * (c - 1) + 1, 64 * c)])

\* lines 250-254: one round on the pair (a, b)
ShorPairRound(T, arith, ab, r) ==
    Let(mix_bits(arith, ab[1], ab[2]), LAMBDA m :
        << rotate_left(arith, m[1], Cyc(T.ROTATIONS, r)),
           And32(Add(m[2], Cyc(T.EXTRA_PRIMES, r))) >>)

\* lines 242-257: the mixing of the pair (j, j + 1)
ShorPair(T, arith, st, j) ==
    Let(<<Get(st, j), Get(st, (j + 1) % Len(st))>>, LAMBDA ab :
    Let(ShorPairRound(T, arith, ab, 0), LAMBDA r0 :
    Let(ShorPairRound(T, arith, r0, 1), LAMBDA r1 :
    Let(ShorPairRound(T, arith, r1, 2), LAMBDA r2 :
    Let(ShorPairRound(T, arith, r2, 3), LAMBDA r3 :
        Put(Put(st, j, r3[1]), (j + 1) % Len(st), r3[2]))))))

\* lines 231-257: chunk c of the block, XORed into its slot, then the pair loop
ShorChunk(T, arith, sched, st, block, c) ==
    Let(Put(st, c % Len(st), Xor(Get(st, c % Len(st)), LoadChunk(block, 4 * c))), LAMBDA s1 :
        ForEach(LAMBDA s, j : ShorPair(T, arith, s, j), Order(sched, Len(st)), s1))

\* lines 260-264: the permutation, written from the snapshot temp
ShorPermuteWord(arith, st, temp, i) ==
    LET n == Len(temp)
    IN  Put(st, (i * 7 + 1) % n,
            Xor(Get(temp, i), rotate_left(arith, Get(temp, (i * 5 + 3) % n), 13)))

\* lines 260-264: temp = state.copy(), then the loop over i
ShorPermute(arith, sched, temp) ==
    ForEach(LAMBDA st, i : ShorPermuteWord(arith, st, temp, i), Order(sched, Len(temp)), temp)

\* lines 227-264: the body of "for block_start in range(...)"
ShorBlockStep(T, arith, sched, state, block) ==
    Let(ForEach(LAMBDA st, c : ShorChunk(T, arith, sched, st, block, c), Range(16), state),
        LAMBDA temp : ShorPermute(arith, sched, temp))

\* lines 272-278: one round of the final diffusion of word i
ShorFinalRound(T, arith, st, i, j) ==
    LET n == Len(st)
    IN  Let(Put(st, i, Xor(Xor(rotate_left(arith, Get(st, i), 9), Get(st, (i + j + 1) % n)),
                           Xor(rotate_left(arith, Get(st, (i + j + 2) % n), 13),
                               Get(st, (i + j + 3) % n)))), LAMBDA s1 :
            Put(s1, i, And32(Mul(Get(s1, i), Cyc(T.PRIMES, j)))))

\* lines 268-278
ShorFinalWord(T, arith, st, data_length, i) ==
    Let(Put(st, i, Xor(Get(st, i), FromNat(data_length))), LAMBDA s1 :
        ForEach(LAMBDA s, j : ShorFinalRound(T, arith, s, i, j), Range(4), s1))

\* lines 267-278
ShorFinal(T, arith, sched, state, data_length) ==
    ForEach(LAMBDA st, i : ShorFinalWord(T, arith, st, data_length, i),
            Order(sched, Len(state)), state)

\* lines 281-287
ShorOutput(st, digest_size) ==
    Tup([p \in 1..digest_size |->
        IF (p - 1) \div 4 < Min(Len(st), digest_size \div 4 + 1)
        THEN ByteOf(Get(st, (p - 1) \div 4), (p - 1) % 4)
        ELSE 0])

\* line 237 divides by state_size: digest_size = 0 raises at the first chunk
numba_enhanced_shor_hash(T, arith, sched, data0, digest_size) ==
    Let(Remap(data0), LAMBDA data :
        IF StateSize(digest_size) = 0 THEN Raise("ZeroDivisionError")
        ELSE
    Let(ForEach(LAMBDA st, block : ShorBlockStep(T, arith, sched, st, block),
                ShorBlocks(data), ShorInit(T, StateSize(digest_size))), LAMBDA absorbed :
    Let(ShorFinal(T, arith, sched, absorbed, Len(data)), LAMBDA final :
        Ok(ShorOutput(final, digest_size)))))

(***************************************************************************)
(* numba_enhanced_hybrid_hash (lines 308-391)                              *)
(***************************************************************************)
\* 0-based store of a byte into a bytearray
PutByte(bs, i, v) == [bs EXCEPT ![i + 1] = v]

\* bytearray(n)
ZeroBytes(n) == Tup([p \in 1..n |-> 0])

\* lines 334-340: data1 and data2
Prefixed(prefix, data) == <<prefix>> \o data

\* an interleave that takes the even positions from shor and the odd ones from grover
HybridInterleaveSwapped(sched, grover_result, shor_result, digest_size) ==
    Let(ForEach(LAMBDA res, i : PutByte(PutByte(res, i * 2, shor_result[i + 1]),
                                        i * 2 + 1, grover_result[i + 1]),
                Order(sched, digest_size \div 2), ZeroBytes(digest_size)), LAMBDA result :
        IF digest_size - 2 * (digest_size \div 2) # 0
        THEN PutByte(result, digest_size - 1,
                     XorLimb(grover_result[Len(grover_result)], shor_result[Len(shor_result)]))
        ELSE result)

\* lines 349-359: the two half digests interleaved, and the odd last byte
HybridInterleave(sched, grover_result, shor_result, digest_size) ==
    Let(ForEach(LAMBDA res, i : PutByte(PutByte(res, i * 2, grover_result[i + 1]),
                                        i * 2 + 1, shor_result[i + 1]),
                Order(sched, digest_size \div 2), ZeroBytes(digest_size)), LAMBDA result :
        IF digest_size - 2 * (digest_size \div 2) # 0
        THEN PutByte(result, digest_size - 1,
                     XorLimb(grover_result[Len(grover_result)], shor_result[Len(shor_result)]))
        ELSE result)

\* lines 363-370: the bytes packed into 32-bit words
HybridPack(sched, result, digest_size) ==
    ForEach(LAMBDA st, i : Put(st, i \div 4, Or(Get(st, i \div 4),
                                                 Shl(<<result[i + 1]>>, (i % 4) * 8))),
            Order(sched, digest_size),
            Tup([p \in 1..StateSize(digest_size) |-> FromNat(0)]))

\* lines 376-382: state word i mixed with its next min(4, state_size) - 1 neighbours
HybridMixWord(arith, st, i) ==
    ForEach(LAMBDA s, j : MixPair(arith, s, i, (i + j) % Len(st)),
            Tup([p \in 1..(Min(4, Len(st)) - 1) |-> p]), st)

\* lines 375-382: one round, the loop over the state words
HybridMixRound(arith, sched, st) ==
    ForEach(LAMBDA s, i : HybridMixWord(arith, s, i), Order(sched, Len(st)), st)

\* lines 373-382
HybridMix(arith, sched, state) ==
    ForEach(LAMBDA st, round : HybridMixRound(arith, sched, st), Range(4), state)

\* every word of the state as four bytes, whatever digest_size
HybridOutputWords(st, digest_size) ==
    Tup([p \in 1..(4 * Len(st)) |-> ByteOf(Get(st, (p - 1) \div 4), (p - 1) % 4)])

\* lines 385-389
HybridOutput(st, digest_size) ==
    Tup([p \in 1..digest_size |-> ByteOf(Get(st, (p - 1) \div 4), (p - 1) % 4)])

\* lines 349-391, from the two half digests on
HybridCombine(arith, sched, grover_result, shor_result, digest_size) ==
    Let(HybridInterleave(sched, grover_result, shor_result, digest_size), LAMBDA result :
    Let(HybridPack(sched, result, digest_size), LAMBDA state :
    Let(HybridMix(arith, sched, state), LAMBDA mixed :
        HybridOutput(mixed, digest_size))))

numba_enhanced_hybrid_hash(T, arith, sched, data0, digest_size) ==
    Let(Remap(data0), LAMBDA data :
    Let(numba_enhanced_grover_hash(T, arith, sched, Prefixed(1, data), digest_size \div 2),
        LAMBDA g :
    Let(numba_enhanced_shor_hash(T, arith, sched, Prefixed(2, data), digest_size \div 2),
        LAMBDA s :
        IF g.exc # "none" THEN g
        ELSE IF s.exc # "none" THEN s
        ELSE Ok(HybridCombine(arith, sched, g.value, s.value, digest_size)))))

(***************************************************************************)
(* The state machine.                                                       *)
(*   tables  the module-level arrays PRIMES, ROTATIONS, EXTRA_PRIMES        *)
(*   arith   the arithmetic of the running build                            *)
(*   flags   the module-level flags _HAVE_C_EXTENSIONS and _HAVE_NUMBA      *)
(*   regs    the arguments and the returned values of a caller of one of   *)
(*           the helpers: mix_bits, the shor permutation                    *)
(*   frame   per thread, the hash call it is in: its arguments, position,   *)
(*           locals and result                                               *)
(*   heap    the state arrays, by the name Alloc gave them                   *)
(*   lamport the LamportSignature object and the key material, message and  *)
(*           signature of its caller                                         *)
(*   web     a client of the web service: what it was given, its last        *)
(*           request and the response                                        *)
(***************************************************************************)
VARIABLES tables, arith, flags, regs, frame, heap, lamport, web

vars == <<tables, arith, flags, regs, frame, heap, lamport, web>>

Threads == {"t1", "t2"}

Families == {"grover", "shor", "hybrid"}

\* the inputs of the hash calls
Inputs == {<<>>, <<0>>, <<1>>, <<100>>, <<1, 2, 3, 4, 5>>}

\* the largest digest_size of a hash call
MaxDigest == 5

\* the family function itself, as one evaluation
Hash(T, ar, sched, alg, data, digest_size) ==
    CASE alg = "grover" -> numba_enhanced_grover_hash(T, ar, sched, data, digest_size)
      [] alg = "shor" -> numba_enhanced_shor_hash(T, ar, sched, data, digest_size)
      [] alg = "hybrid" -> numba_enhanced_hybrid_hash(T, ar, sched, data, digest_size)

\* one array object shared by all the calls
AllocShared(t) == "t1"

\* np.array(...) / np.zeros(...) make a new array object: it is named by the thread making it
Alloc(t) == t

Idle == [pc |-> "idle", alg |-> "none", data0 |-> <<>>, data |-> <<>>, n |-> 0,
         sched |-> "fwd", todo |-> <<>>, buf |-> "none", g |-> <<>>, s |-> <<>>,
         result |-> Ok(<<>>), backend |-> "none"]

NoLamport == [pc |-> "none"]

\* no request has been sent to the web service
NoWeb == [pc |-> "none"]

NoRegs == [pc |-> "none"]

\* lines 13-47: what the two imports at module load can set the flags to
Flags == [c : BOOLEAN, numba : BOOLEAN]

\* the flags of a process that has no extension modules and has numba
Flags0 == [c |-> FALSE, numba |-> TRUE]

\* lines 23-47: the numba_enhanced_* functions are compiled by numba when it is there, and
\* are the plain Python functions under the dummy decorators when it is not
Compiled(fl) == IF fl.numba THEN "jit" ELSE "python"

\* a dispatch that prefers the compiled functions to the extension modules
SelectBackendJitFirst(fl) ==
    IF fl.numba THEN "jit" ELSE IF fl.c THEN "native" ELSE "python"

\* lines 189-192, 302-305, 406-409: if _HAVE_C_EXTENSIONS the *_c function, else numba_enhanced_*
SelectBackend(fl) == IF fl.c THEN "native" ELSE Compiled(fl)

HashInit ==
    /\ tables = Tables0
    /\ arith \in Arith
    /\ frame = [t \in Threads |-> Idle]
    /\ heap = [t \in Threads |-> <<>>]

Init == HashInit /\ flags = Flags0 /\ regs = NoRegs /\ lamport = NoLamport /\ web = NoWeb

\* entry of a hash function: lines 106-129 (grover), 208-223 (shor), 321-340 (hybrid);
\* without numba prange is range (lines 35-36), and the loops run in sequential order
Call(t, alg, data0, n, sched) ==
    /\ frame[t].pc \in {"idle", "done"}
    /\ flags.numba \/ sched = "fwd"
    /\ frame' = [frame EXCEPT ![t] =
            [pc |-> IF alg = "hybrid" THEN "hgrover" ELSE "absorb",
             alg |-> alg, data0 |-> data0, data |-> Remap(data0), n |-> n, sched |-> sched,
             todo |-> CASE alg = "grover" -> GroverChunks(Remap(data0))
                        [] alg = "shor" -> ShorBlocks(Remap(data0))
                        [] alg = "hybrid" -> <<>>,
             buf |-> IF alg = "hybrid" THEN "none" ELSE Alloc(t),
             g |-> <<>>, s |-> <<>>, result |-> Ok(<<>>), backend |-> Compiled(flags)]]
    /\ heap' = CASE alg = "grover" -> [heap EXCEPT ![Alloc(t)] = GroverInit(tables, n)]
                 [] alg = "shor" -> [heap EXCEPT ![Alloc(t)] = ShorInit(tables, StateSize(n))]
                 [] alg = "hybrid" -> heap
    /\ UNCHANGED <<tables, arith, flags, regs, lamport, web>>

\* one iteration of the chunk loop (lines 132-154) or of the block loop (lines 226-264)
Absorb(t) ==
    LET f == frame[t]
    IN  /\ f.pc = "absorb"
        /\ f.todo # <<>>
        /\ IF f.alg = "shor" /\ Len(heap[f.buf]) = 0
           THEN /\ frame' = [frame EXCEPT ![t].pc = "done",
                                          ![t].result = Raise("ZeroDivisionError")]
                /\ heap' = [heap EXCEPT ![f.buf] = <<>>]
           ELSE /\ frame' = [frame EXCEPT ![t].todo = Tail(f.todo)]
                /\ heap' = [heap EXCEPT ![f.buf] =
                        IF f.alg = "grover"
                        THEN GroverChunkStep(tables, arith, f.sched, heap[f.buf], Head(f.todo))
                        ELSE ShorBlockStep(tables, arith, f.sched, heap[f.buf], Head(f.todo))]
        /\ UNCHANGED <<tables, arith, flags, regs, lamport, web>>

\* the final mixing (lines 157-165) or the finalization (lines 267-278)
Finalize(t) ==
    LET f == frame[t]
    IN  /\ f.pc = "absorb"
        /\ f.todo = <<>>
        /\ frame' = [frame EXCEPT ![t].pc = "output"]
        /\ heap' = [heap EXCEPT ![f.buf] =
                IF f.alg = "grover" THEN GroverFinal(arith, heap[f.buf], f.n)
                ELSE ShorFinal(tables, arith, f.sched, heap[f.buf], Len(f.data))]
        /\ UNCHANGED <<tables, arith, flags, regs, lamport, web>>

\* line 343: the grover half of hybrid
HybridGrover(t) ==
    LET f == frame[t]
        r == numba_enhanced_grover_hash(tables, arith, f.sched, Prefixed(1, f.data), f.n \div 2)
    IN  /\ f.pc = "hgrover"
        /\ frame' = [frame EXCEPT ![t].pc = "hshor", ![t].g = r.value]
        /\ UNCHANGED <<tables, arith, flags, regs, heap, lamport, web>>

\* line 346: the shor half of hybrid; what it raises leaves hybrid
HybridShor(t) ==
    LET f == frame[t]
    IN  /\ f.pc = "hshor"
        /\ frame' = [frame EXCEPT ![t] =
                Let(numba_enhanced_shor_hash(tables, arith, f.sched, Prefixed(2, f.data),
                                             f.n \div 2), LAMBDA r :
                    IF r.exc # "none" THEN [f EXCEPT !.pc = "done", !.g = <<>>, !.result = r]
                    ELSE [f EXCEPT !.pc = "hpack", !.s = r.value])]
        /\ UNCHANGED <<tables, arith, flags, regs, heap, lamport, web>>

\* lines 349-370: interleaving and packing into a new state array
HybridPackStep(t) ==
    LET f == frame[t]
    IN  /\ f.pc = "hpack"
        /\ frame' = [frame EXCEPT ![t].pc = "hmix", ![t].buf = Alloc(t)]
        /\ heap' = [heap EXCEPT ![Alloc(t)] =
                HybridPack(f.sched, HybridInterleave(f.sched, f.g, f.s, f.n), f.n)]
        /\ UNCHANGED <<tables, arith, flags, regs, lamport, web>>

\* lines 373-382
HybridMixStep(t) ==
    LET f == frame[t]
    IN  /\ f.pc = "hmix"
        /\ frame' = [frame EXCEPT ![t].pc = "output"]
        /\ heap' = [heap EXCEPT ![f.buf] = HybridMix(arith, f.sched, heap[f.buf])]
        /\ UNCHANGED <<tables, arith, flags, regs, lamport, web>>

\* the state serialized and returned: lines 167-174, 280-287, 384-391; the array dies
Return(t) ==
    LET f == frame[t]
    IN  /\ f.pc = "output"
        /\ frame' = [frame EXCEPT ![t].pc = "done", ![t].g = <<>>, ![t].s = <<>>,
                                  ![t].result =
                Ok(CASE f.alg = "grover" -> GroverOutput(heap[f.buf], f.n)
                     [] f.alg = "shor" -> ShorOutput(heap[f.buf], f.n)
                     [] f.alg = "hybrid" -> HybridOutput(heap[f.buf], f.n))]
        /\ heap' = [heap EXCEPT ![f.buf] = <<>>]
        /\ UNCHANGED <<tables, arith, flags, regs, lamport, web>>

\* the steps of a call in progress
Step(t) ==
    \/ Absorb(t)
    \/ Finalize(t)
    \/ HybridGrover(t)
    \/ HybridShor(t)
    \/ HybridPackStep(t)
    \/ HybridMixStep(t)
    \/ Return(t)

(***************************************************************************)
(* Spec: one caller making hash calls one after the other, each under any  *)
(* schedule of its parallel loops.                                          *)
(***************************************************************************)
Next ==
    \/ \E alg \in Families, data0 \in Inputs, n \in 1..MaxDigest, sched \in Scheds :
            Call("t1", alg, data0, n, sched)
    \/ Step("t1")

Spec == Init /\ [][Next]_vars

(***************************************************************************)
(* BackendSpec: a process whose imports set the flags in any way, and one  *)
(* caller of the optimized_* functions.                                     *)
(***************************************************************************)
BackendInit == HashInit /\ flags \in Flags /\ regs = NoRegs /\ lamport = NoLamport /\ web = NoWeb

\* optimized_grover_hash (177-192), optimized_shor_hash (290-305), optimized_hybrid_hash
\* (394-409): the extension function when the flag says it was imported, else numba_enhanced_*
Optimized(t, alg, data0, n, sched) ==
    IF SelectBackend(flags) = "native"
    THEN /\ frame[t].pc \in {"idle", "done"}
         /\ frame' = [frame EXCEPT ![t] =
                [Idle EXCEPT !.pc = "native", !.alg = alg, !.data0 = data0, !.data = data0,
                             !.n = n, !.backend = "native"]]
         /\ UNCHANGED <<tables, arith, flags, regs, heap, lamport, web>>
    ELSE Call(t, alg, data0, n, sched)

\* the extension function returns the digest of the family
NativeReturn(t) ==
    /\ frame[t].pc = "native"
    /\ frame' = [frame EXCEPT ![t].pc = "done", ![t].data = Remap(frame[t].data0),
                              ![t].result =
            Hash(tables, "uint32", "fwd", frame[t].alg, frame[t].data0, frame[t].n)]
    /\ UNCHANGED <<tables, arith, flags, regs, heap, lamport, web>>

BackendNext ==
    \/ \E alg \in Families, data0 \in Inputs, n \in 1..MaxDigest, sched \in Scheds :
            Optimized("t1", alg, data0, n, sched)
    \/ NativeReturn("t1")
    \/ Step("t1")

BackendSpec == BackendInit /\ [][BackendNext]_vars

(***************************************************************************)
(* MixSpec: a caller of mix_bits that stores what it returns into a        *)
(* dtype=np.uint32 array and passes the stored words on to the next call,  *)
(* as the rounds of the hash functions do.                                  *)
(***************************************************************************)
\* the words of the first call
MixWords == {Word(0, 0, 0, 1), Word(255, 255, 255, 255), GOLDEN, PRIMES0[2]}

\* the number of calls in a row
MixDepth == 4

\* v < 2^32
Fits32(v) == \A k \in DOMAIN v : k > 2 => v[k] = 0

\* lines 78-90 called on a and b; ra and rb are the two values returned, as returned
MixCall(a, b) ==
    /\ regs.pc = "none"
    /\ regs' = Let(mix_bits(arith, a, b), LAMBDA r :
                   [pc |-> "ret", a |-> a, b |-> b, ra |-> r[1], rb |-> r[2], k |-> 1])
    /\ UNCHANGED <<tables, arith, flags, frame, heap, lamport, web>>

\* state[i], state[j] = mix_bits(state[i], state[j]) (lines 150-153, 162-164) once more:
\* the values returned go through the array and come back as arguments
MixStored ==
    /\ regs.pc = "ret"
    /\ regs.k < MixDepth
    /\ regs' = Let(mix_bits(arith, Store(regs.ra), Store(regs.rb)), LAMBDA r :
                   [pc |-> "ret", a |-> Store(regs.ra), b |-> Store(regs.rb),
                    ra |-> r[1], rb |-> r[2], k |-> regs.k + 1])
    /\ UNCHANGED <<tables, arith, flags, frame, heap, lamport, web>>

MixNext ==
    \/ \E a \in MixWords, b \in MixWords : MixCall(a, b)
    \/ MixStored

MixSpec == Init /\ [][MixNext]_vars

(***************************************************************************)
(* PermSpec: the post-block permutation of the shor hash, applied again    *)
(* and again to a state array of any size up to MaxWords.                   *)
(***************************************************************************)
\* the largest state_size; (32 + 3) // 4 = 8 is the state_size of the default digest_size
MaxWords == 8

\* the number of permutations in a row
PermDepth == 6

PermInit ==
    /\ HashInit
    /\ flags = Flags0
    /\ lamport = NoLamport
    /\ web = NoWeb
    /\ \E n \in 1..MaxWords :
            regs = [pc |-> "state", temp |-> <<>>, state |-> ShorInit(tables, n), k |-> 0]

\* lines 259-264 once more: temp is the copy taken at line 260, state the array afterwards
Permute(sched) ==
    /\ regs.pc \in {"state", "permuted"}
    /\ regs.k < PermDepth
    /\ regs' = [pc |-> "permuted", temp |-> regs.state,
                state |-> ShorPermute(arith, sched, regs.state), k |-> regs.k + 1]
    /\ UNCHANGED <<tables, arith, flags, frame, heap, lamport, web>>

PermNext == \E sched \in Scheds : Permute(sched)

PermSpec == PermInit /\ [][PermNext]_vars

(***************************************************************************)
(* HybridSpec: one caller of the hybrid hash at digest sizes whose halves  *)
(* are whole words.                                                          *)
(***************************************************************************)
\* the largest digest_size of these calls; the one below it is the other
HybridDigest == 9

HybridNext ==
    \/ \E data0 \in Inputs, n \in (HybridDigest - 1)..HybridDigest, sched \in Scheds :
            Call("t1", "hybrid", data0, n, sched)
    \/ HybridGrover("t1")
    \/ HybridShor("t1")
    \/ HybridPackStep("t1")
    \/ HybridMixStep("t1")
    \/ Return("t1")

HybridSpec == Init /\ [][HybridNext]_vars

(***************************************************************************)
(* ConcSpec: two threads, each making one hash call, their steps            *)
(* interleaved in every way.                                                 *)
(***************************************************************************)
\* the digest_size of the concurrent calls
ConcDigest == 4

ConcInputs == {<<>>, <<1>>}

ConcCall(t) ==
    /\ frame[t].pc = "idle"
    /\ \E alg \in {"grover", "shor"}, data0 \in ConcInputs :
            Call(t, alg, data0, ConcDigest, "fwd")

ConcNext ==
    \E t \in Threads :
        \/ ConcCall(t)
        \/ Absorb(t)
        \/ Finalize(t)
        \/ Return(t)

ConcSpec == Init /\ [][ConcNext]_vars

(***************************************************************************)
(* LamportSignature (signatures/lamport.py) and its caller.                 *)
(***************************************************************************)
\* self.digest_size, and the default digest_size of the hasher, scaled down from 32
LamportDigest == 4

\* range(self.digest_size * 8) counts NBits positions
NBits == LamportDigest * 8

Algorithms == {"improved", "grover", "shor", "hybrid", "improved_grover", "improved_shor"}

\* the identifiers a caller passes to LamportSignature: the six names and one that is none of them
AlgorithmNames == Algorithms \cup {"sha256"}

\* self.hasher.hash(..., algorithm=...) fails with UnsupportedAlgorithm for a name it does not know
DiracHash_check(algorithm) ==
    IF algorithm \in Algorithms THEN "none" ELSE "UnsupportedAlgorithm"

\* the family an algorithm name selects
Family(algorithm) ==
    CASE algorithm \in {"grover", "improved_grover"} -> "grover"
      [] algorithm \in {"shor", "improved_shor"} -> "shor"
      [] algorithm \in {"hybrid", "improved"} -> "hybrid"

FamilySeq == <<"grover", "shor", "hybrid">>

\* a secret of digest_size bytes made of the four bytes b
Secret(b) == Tup([p \in 1..LamportDigest |-> IF p <= Len(b) THEN b[p] ELSE 0])

\* the values secrets.token_bytes draws in the model
SecretA == Secret(<<4, 7, 7, 9>>)

SecretB == Secret(<<19, 6, 7, 9>>)

SecretC == Secret(<<36, 1, 7, 9>>)

SecretD == Secret(<<62, 2, 7, 9>>)

\* the messages of the caller
Messages == {<<>>, <<0>>, <<1>>}

\* the messages an adversary wants accepted
ForgeTargets == {<<36>>, <<100>>}

\* every byte string the Lamport machine hashes
Pool == << <<>>, <<0>>, <<1>>, SecretA, SecretB, SecretC, SecretD, <<36>>, <<100>> >>

\* the digests of the pool, by family and pool index, each evaluated once
HashMemo ==
    Tup([a \in 1..Len(FamilySeq) |->
        Tup([k \in 1..Len(Pool) |->
            Hash(Tables0, "uint32", "fwd", FamilySeq[a], Pool[k], LamportDigest).value])])

\* self.hasher.hash(data, algorithm=...): the digest of data, of the default size
DiracHash_hash(algorithm, data) ==
    HashMemo[CHOOSE a \in 1..Len(FamilySeq) : FamilySeq[a] = Family(algorithm)]
            [CHOOSE k \in 1..Len(Pool) : Pool[k] = data]

\* the draws of one run of generate_keypair: the secret of position i and bit value bit
Tapes == {"ac", "cdda"}

Draw(tape, i, bit) ==
    IF tape = "ac" THEN (IF bit = 0 THEN SecretA ELSE SecretC)
    ELSE IF i = 0 THEN (IF bit = 0 THEN SecretB ELSE SecretC)
    ELSE IF i % 2 = 0 THEN (IF bit = 0 THEN SecretC ELSE SecretD)
    ELSE (IF bit = 0 THEN SecretD ELSE SecretA)

\* bit i of the digest, least significant bit of each byte first, as a signer would take it
SignBitLsbFirst(message_digest, i) ==
    IF BitOf(message_digest[(i \div 8) + 1], i % 8) # 0 THEN 1 ELSE 0

\* lines 87-89: bit i of the digest the signer extracts
SignBit(message_digest, i) ==
    IF BitOf(message_digest[(i \div 8) + 1], 7 - (i % 8)) # 0 THEN 1 ELSE 0

\* bit i of the digest, least significant bit of each byte first
VerifyBitLsbFirst(message_digest, i) ==
    IF BitOf(message_digest[(i \div 8) + 1], i % 8) # 0 THEN 1 ELSE 0

\* the complement of bit i of the digest
VerifyBitInverted(message_digest, i) ==
    IF BitOf(message_digest[(i \div 8) + 1], 7 - (i % 8)) # 0 THEN 0 ELSE 1

\* lines 118-120: bit i of the digest the verifier extracts
VerifyBit(message_digest, i) ==
    IF BitOf(message_digest[(i \div 8) + 1], 7 - (i % 8)) # 0 THEN 1 ELSE 0

\* lines 85-92: the signature, or the KeyError of private_key[i]
SignLoop(message_digest, private_key) ==
    IF \E i \in 0..(NBits - 1) : i \notin DOMAIN private_key
    THEN Raise("KeyError")
    ELSE Ok(Tup([p \in 1..NBits |-> private_key[p - 1][SignBit(message_digest, p - 1) + 1]]))

\* a verification that returns after the comparison of position i
VerifyFirstOnly(algorithm, message_digest, signature, public_key, i) ==
    IF i >= NBits THEN Ok(TRUE)
    ELSE IF i + 1 > Len(signature) THEN Raise("IndexError")
    ELSE IF i \notin DOMAIN public_key THEN Raise("KeyError")
    ELSE Ok(DiracHash_hash(algorithm, signature[i + 1])
                = public_key[i][VerifyBit(message_digest, i) + 1])

\* a verification that compares the first byte of the two digests only
RECURSIVE VerifyFirstByte(_, _, _, _, _)
VerifyFirstByte(algorithm, message_digest, signature, public_key, i) ==
    IF i >= NBits THEN Ok(TRUE)
    ELSE IF i + 1 > Len(signature) THEN Raise("IndexError")
    ELSE IF i \notin DOMAIN public_key THEN Raise("KeyError")
    ELSE IF DiracHash_hash(algorithm, signature[i + 1])[1]
                # public_key[i][VerifyBit(message_digest, i) + 1][1]
         THEN Ok(FALSE)
    ELSE VerifyFirstByte(algorithm, message_digest, signature, public_key, i + 1)

\* a verification that accepts as soon as one position matches
RECURSIVE VerifyAnyPosition(_, _, _, _, _)
VerifyAnyPosition(algorithm, message_digest, signature, public_key, i) ==
    IF i >= NBits THEN Ok(FALSE)
    ELSE IF i + 1 > Len(signature) THEN Raise("IndexError")
    ELSE IF i \notin DOMAIN public_key THEN Raise("KeyError")
    ELSE IF DiracHash_hash(algorithm, signature[i + 1])
                = public_key[i][VerifyBit(message_digest, i) + 1]
         THEN Ok(TRUE)
    ELSE VerifyAnyPosition(algorithm, message_digest, signature, public_key, i + 1)

\* lines 116-133 from position i on: signature[i] may raise IndexError, public_key[i] KeyError
RECURSIVE VerifyLoop(_, _, _, _, _)
VerifyLoop(algorithm, message_digest, signature, public_key, i) ==
    IF i >= NBits THEN Ok(TRUE)
    ELSE IF i + 1 > Len(signature) THEN Raise("IndexError")
    ELSE IF i \notin DOMAIN public_key THEN Raise("KeyError")
    ELSE IF DiracHash_hash(algorithm, signature[i + 1])
                # public_key[i][VerifyBit(message_digest, i) + 1]
         THEN Ok(FALSE)
    ELSE VerifyLoop(algorithm, message_digest, signature, public_key, i + 1)

NoTamper == [kind |-> "none", at |-> 0]

\* no sign call before the last one
NoEarlier == [message |-> <<>>, signature |-> <<>>]

\* lines 24-34
Construct(hash_algorithm) ==
    /\ lamport' = [pc |-> "ready", hash_algorithm |-> hash_algorithm, private_key |-> <<>>,
                   public_key |-> <<>>, message |-> <<>>, signature |-> <<>>,
                   tamper |-> NoTamper, checked |-> <<>>, outcome |-> Ok(<<>>), uses |-> 0,
                   earlier |-> NoEarlier]
    /\ UNCHANGED <<tables, arith, flags, regs, frame, heap, web>>

\* a key generation that publishes the secrets themselves
GenerateKeypairUnhashed(tape) ==
    /\ lamport.pc = "ready"
    /\ lamport' =
            IF DiracHash_check(lamport.hash_algorithm) # "none"
            THEN [lamport EXCEPT !.pc = "failed",
                                 !.outcome = Raise(DiracHash_check(lamport.hash_algorithm))]
            ELSE [lamport EXCEPT
                    !.pc = "keys",
                    !.private_key = [i \in 0..(NBits - 1) |-> <<Draw(tape, i, 0), Draw(tape, i, 1)>>],
                    !.public_key = [i \in 0..(NBits - 1) |-> <<Draw(tape, i, 0), Draw(tape, i, 1)>>]]
    /\ UNCHANGED <<tables, arith, flags, regs, frame, heap, web>>

\* lines 36-61; a key is a function from positions to the pair <<entry of bit 0, entry of bit 1>>;
\* the first self.hasher.hash (line 56) raises for a name the hasher does not know
GenerateKeypair(tape) ==
    /\ lamport.pc = "ready"
    /\ lamport' =
            IF DiracHash_check(lamport.hash_algorithm) # "none"
            THEN [lamport EXCEPT !.pc = "failed",
                                 !.outcome = Raise(DiracHash_check(lamport.hash_algorithm))]
            ELSE [lamport EXCEPT
                    !.pc = "keys",
                    !.private_key = [i \in 0..(NBits - 1) |-> <<Draw(tape, i, 0), Draw(tape, i, 1)>>],
                    !.public_key = [i \in 0..(NBits - 1) |->
                        <<DiracHash_hash(lamport.hash_algorithm, Draw(tape, i, 0)),
                          DiracHash_hash(lamport.hash_algorithm, Draw(tape, i, 1))>>]]
    /\ UNCHANGED <<tables, arith, flags, regs, frame, heap, web>>

\* the positions at which the caller removes a key entry
DropAt == {0, NBits - 1}

\* the caller passes a private key without the entry of position i
DropPrivate(i) ==
    /\ lamport.pc = "keys"
    /\ lamport.tamper = NoTamper
    /\ lamport' = [lamport EXCEPT
            !.private_key = [k \in (DOMAIN lamport.private_key) \ {i} |-> lamport.private_key[k]],
            !.tamper = [kind |-> "drop_private", at |-> i]]
    /\ UNCHANGED <<tables, arith, flags, regs, frame, heap, web>>

\* the number of sign calls a caller makes with one private key
MaxUses == 2

\* a sign that refuses a private key it has signed with before
SignOnce(message) ==
    /\ lamport.pc \in {"keys", "signed", "verified"}
    /\ lamport.pc # "keys" => lamport.tamper = NoTamper
    /\ lamport.uses < MaxUses
    /\ lamport' =
            Let(SignLoop(DiracHash_hash(lamport.hash_algorithm, message), lamport.private_key),
                LAMBDA r :
                IF lamport.uses >= 1
                THEN [lamport EXCEPT !.pc = "failed", !.message = message,
                                     !.outcome = Raise("KeyAlreadyUsed"), !.uses = @ + 1]
                ELSE IF r.exc # "none"
                THEN [lamport EXCEPT !.pc = "failed", !.message = message, !.outcome = r,
                                     !.uses = @ + 1]
                ELSE [lamport EXCEPT !.pc = "signed", !.message = message,
                                     !.signature = r.value, !.checked = <<>>,
                                     !.outcome = Ok(<<>>), !.uses = @ + 1,
                                     !.earlier = IF lamport.pc = "keys" THEN NoEarlier
                                                 ELSE [message |-> lamport.message,
                                                       signature |-> lamport.signature]])
    /\ UNCHANGED <<tables, arith, flags, regs, frame, heap, web>>

\* lines 63-94; uses counts the sign calls made with the private key, the first after
\* generate_keypair and the later ones after an earlier sign or verify with nothing altered;
\* earlier is the message and the signature of the sign call before, which stay published
Sign(message) ==
    /\ lamport.pc \in {"keys", "signed", "verified"}
    /\ lamport.pc # "keys" => lamport.tamper = NoTamper
    /\ lamport.uses < MaxUses
    /\ lamport' =
            Let(SignLoop(DiracHash_hash(lamport.hash_algorithm, message), lamport.private_key),
                LAMBDA r :
                IF r.exc # "none"
                THEN [lamport EXCEPT !.pc = "failed", !.message = message, !.outcome = r,
                                     !.uses = @ + 1]
                ELSE [lamport EXCEPT !.pc = "signed", !.message = message,
                                     !.signature = r.value, !.checked = <<>>,
                                     !.outcome = Ok(<<>>), !.uses = @ + 1,
                                     !.earlier = IF lamport.pc = "keys" THEN NoEarlier
                                                 ELSE [message |-> lamport.message,
                                                       signature |-> lamport.signature]])
    /\ UNCHANGED <<tables, arith, flags, regs, frame, heap, web>>

\* the caller replaces signature[i] by another value of the same length
Replace(i, v) ==
    /\ lamport.pc = "signed"
    /\ lamport.tamper = NoTamper
    /\ v # lamport.signature[i + 1]
    /\ Len(v) = Len(lamport.signature[i + 1])
    /\ lamport' = [lamport EXCEPT !.signature[i + 1] = v,
                                  !.tamper = [kind |-> "replace", at |-> i]]
    /\ UNCHANGED <<tables, arith, flags, regs, frame, heap, web>>

\* the caller drops the last element of the signature
Truncate ==
    /\ lamport.pc = "signed"
    /\ lamport.tamper = NoTamper
    /\ lamport' = [lamport EXCEPT
            !.signature = SubSeq(lamport.signature, 1, Len(lamport.signature) - 1),
            !.tamper = [kind |-> "truncate", at |-> Len(lamport.signature) - 1]]
    /\ UNCHANGED <<tables, arith, flags, regs, frame, heap, web>>

\* the caller appends one more element to the signature
Extend(v) ==
    /\ lamport.pc = "signed"
    /\ lamport.tamper = NoTamper
    /\ lamport' = [lamport EXCEPT
            !.signature = Append(lamport.signature, v),
            !.tamper = [kind |-> "extend", at |-> Len(lamport.signature)]]
    /\ UNCHANGED <<tables, arith, flags, regs, frame, heap, web>>

\* the caller passes a public key without the entry of position i
DropPublic(i) ==
    /\ lamport.pc = "signed"
    /\ lamport.tamper = NoTamper
    /\ lamport' = [lamport EXCEPT
            !.public_key = [k \in (DOMAIN lamport.public_key) \ {i} |-> lamport.public_key[k]],
            !.tamper = [kind |-> "drop_public", at |-> i]]
    /\ UNCHANGED <<tables, arith, flags, regs, frame, heap, web>>

\* the secrets published so far: the elements of the signature and of the one before
Seen == {lamport.signature[p] : p \in DOMAIN lamport.signature}
            \cup {lamport.earlier.signature[p] : p \in DOMAIN lamport.earlier.signature}

\* an adversary that cannot invert the hash builds a list for the message target out of
\* the secrets published: at each position one that hashes to the public entry of the
\* bit of the target, when one has been published, and the signature's element if none
Forge(target) ==
    /\ lamport.pc = "signed"
    /\ lamport.tamper = NoTamper
    /\ lamport' = [lamport EXCEPT
            !.signature = Tup([p \in 1..NBits |->
                LET want == lamport.public_key[p - 1]
                                [SignBit(DiracHash_hash(lamport.hash_algorithm, target), p - 1) + 1]
                    fit == {x \in Seen : DiracHash_hash(lamport.hash_algorithm, x) = want}
                IN  IF fit # {} THEN CHOOSE x \in fit : TRUE ELSE lamport.signature[p]]),
            !.tamper = [kind |-> "forge", at |-> 0, target |-> target]]
    /\ UNCHANGED <<tables, arith, flags, regs, frame, heap, web>>

\* lines 96-133
Verify(message) ==
    /\ lamport.pc = "signed"
    /\ lamport' = [lamport EXCEPT
            !.pc = "verified",
            !.checked = message,
            !.outcome = VerifyLoop(lamport.hash_algorithm,
                                   DiracHash_hash(lamport.hash_algorithm, message),
                                   lamport.signature, lamport.public_key, 0)]
    /\ UNCHANGED <<tables, arith, flags, regs, frame, heap, web>>

\* lines 96-133, called with the adversary's list and the message it was built for
VerifyForged(target) ==
    /\ lamport.pc = "signed"
    /\ lamport.tamper.kind = "forge"
    /\ lamport.tamper.target = target
    /\ Verify(target)

(***************************************************************************)
(* LamportSpec: a caller that constructs a LamportSignature, generates a   *)
(* key pair, signs a message, may alter what it then passes on, and         *)
(* verifies.                                                                 *)
(***************************************************************************)
LamportNext ==
    \/ \E hash_algorithm \in AlgorithmNames : Construct(hash_algorithm)
    \/ \E tape \in Tapes : GenerateKeypair(tape)
    \/ \E i \in DropAt : DropPrivate(i)
    \/ \E message \in Messages : Sign(message)
    \/ \E i \in 0..(NBits - 1), v \in {SecretB, SecretC} : Replace(i, v)
    \/ Truncate
    \/ Extend(SecretB)
    \/ \E i \in DropAt : DropPublic(i)
    \/ \E message \in Messages : Verify(message)
    \/ \E target \in ForgeTargets : Forge(target)
    \/ \E target \in ForgeTargets : VerifyForged(target)

LamportSpec == Init /\ [][LamportNext]_vars

(***************************************************************************)
(* The web service: src/web/api/routes/signature_routes.py.  A text is a   *)
(* sequence of code points, bytes are a sequence of 0..255.  Sizes are     *)
(* scaled: an entry of 32 bytes in the code is EntrySize bytes here.       *)
(***************************************************************************)
\* the 32 of sig_entry_size, key_entry_size and of the sha256 digest, scaled
EntrySize == 2

\* b[a:e] of Python, which never raises
Slice(b, a, e) == SubSeq(b, a + 1, Min(e, Len(b)))

\* the complete chunks of a byte string: b[i*size:(i+1)*size] for i in range(len(b) // size)
Chunks(b, size) == Tup([k \in 1..(Len(b) \div size) |-> Slice(b, (k - 1) * size, k * size)])

\* b''.join(list)
RECURSIVE Join(_)
Join(list) == IF list = <<>> THEN <<>> ELSE Head(list) \o Join(Tail(list))

\* str(i).encode(): the decimal digits of i
RECURSIVE Str(_)
Str(i) == IF i < 10 THEN <<48 + i>> ELSE Str(i \div 10) \o <<48 + (i % 10)>>

HexDigit(v) == IF v < 10 THEN 48 + v ELSE 87 + v

\* binascii.unhexlify of a str: ValueError for a character outside ASCII, binascii.Error
\* for an odd length or a character that is no hexadecimal digit
Unhexlify(text) ==
    LET IsHex(c) == c \in (48..57) \cup (65..70) \cup (97..102)
        HexVal(c) == IF c <= 57 THEN c - 48 ELSE IF c <= 70 THEN c - 55 ELSE c - 87
    IN  IF \E k \in DOMAIN text : text[k] >= 128 THEN Raise("ValueError")
        ELSE IF Len(text) % 2 # 0 \/ \E k \in DOMAIN text : ~IsHex(text[k])
        THEN Raise("binascii.Error")
        ELSE Ok(Tup([k \in 1..(Len(text) \div 2) |->
                        HexVal(text[2 * k - 1]) * 16 + HexVal(text[2 * k])]))

\* binascii.hexlify(b).decode('ascii')
Hexlify(b) ==
    Tup([k \in 1..(2 * Len(b)) |->
            IF k % 2 = 1 THEN HexDigit(b[(k + 1) \div 2] \div 16)
            ELSE HexDigit(b[k \div 2] % 16)])

\* base64.b64decode of a str (validate=False): characters outside the alphabet are
\* discarded, a last group of 2 or 3 characters needs its '=' padding, which the texts
\* of the model carry at their end only
B64Decode(text) ==
    LET IsB64(c) == c \in (48..57) \cup (65..90) \cup (97..122) \cup {43, 47}
        B64Val(c) == IF c \in 65..90 THEN c - 65
                     ELSE IF c \in 97..122 THEN c - 71
                     ELSE IF c \in 48..57 THEN c + 4
                     ELSE IF c = 43 THEN 62 ELSE 63
        data == SelectSeq(text, IsB64)
        pads == Len(SelectSeq(text, LAMBDA c : c = 61))
        r == Len(data) % 4
        val(k) == IF k <= Len(data) THEN B64Val(data[k]) ELSE 0
        group(q) == val(4 * q + 1) * 262144 + val(4 * q + 2) * 4096
                        + val(4 * q + 3) * 64 + val(4 * q + 4)
        size == 3 * (Len(data) \div 4) + (IF r = 0 THEN 0 ELSE r - 1)
    IN  IF \E k \in DOMAIN text : text[k] >= 128 THEN Raise("ValueError")
        ELSE IF r = 1 \/ (r = 2 /\ pads < 2) \/ (r = 3 /\ pads < 1)
        THEN Raise("binascii.Error")
        ELSE Ok(Tup([k \in 1..size |->
                    (group((k - 1) \div 3) \div Pow2(8 * (2 - ((k - 1) % 3)))) % 256]))

\* base64.b64encode(b).decode('ascii')
B64Encode(b) ==
    LET B64Char(v) == IF v < 26 THEN 65 + v
                      ELSE IF v < 52 THEN 71 + v
                      ELSE IF v < 62 THEN v - 4
                      ELSE IF v = 62 THEN 43 ELSE 47
        byte(k) == IF k <= Len(b) THEN b[k] ELSE 0
        group(q) == byte(3 * q + 1) * 65536 + byte(3 * q + 2) * 256 + byte(3 * q + 3)
    IN  Tup([k \in 1..(4 * ((Len(b) + 2) \div 3)) |->
            LET q == (k - 1) \div 4
                j == (k - 1) % 4
            IN  IF j > Min(3, Len(b) - 3 * q) THEN 61
                ELSE B64Char((group(q) \div Pow2(6 * (3 - j))) % 64)])

\* str.encode('utf-8') for code points below 2048
RECURSIVE Utf8(_)
Utf8(text) ==
    IF text = <<>> THEN <<>>
    ELSE (IF Head(text) < 128 THEN <<Head(text)>>
          ELSE <<192 + (Head(text) \div 64), 128 + (Head(text) % 64)>>) \o Utf8(Tail(text))

\* the encodings a request names
Encodings == {"utf-8", "ascii", "hex", "base64"}

\* lines 34-41; message.encode(encoding) raises for a code point the codec has not
parse_message(message, encoding) ==
    IF encoding = "hex" THEN Unhexlify(message)
    ELSE IF encoding = "base64" THEN B64Decode(message)
    ELSE IF encoding = "ascii" /\ \E k \in DOMAIN message : message[k] >= 128
    THEN Raise("UnicodeEncodeError")
    ELSE Ok(Utf8(message))

\* hashlib.sha256 is a library outside the repository: a stand-in that maps bytes to a
\* digest of EntrySize bytes
sha256(b) ==
    LET RECURSIVE ShaAcc(_, _)
        ShaAcc(rest, acc) ==
            IF rest = <<>> THEN acc
            ELSE ShaAcc(Tail(rest), (acc * 31 + Head(rest) + 7) % (256 ^ EntrySize))
        h == ShaAcc(b, 5381 % (256 ^ EntrySize))
    IN  Tup([k \in 1..EntrySize |-> (h \div (256 ^ (EntrySize - k))) % 256])

SignatureScheme == {"lamport", "sphincs", "dilithium"}

\* lines 404 and 235, 409: 256 and 1024 bytes, in entries of 32
CBytesSize == 8 * EntrySize

PolynomialSize == 32 * EntrySize

\* line 136: the path is the digest ten times
PathRepeat == 10

\* lines 107-152, MockSignature.sign.  For lamport the handler passes a list of dicts
\* {'sk': ...}, so the test "i in private_key" of line 124 is false for every integer i
\* and every element is the fallback of line 128
MockSign(scheme, message, private_key) ==
    IF scheme = "lamport"
    THEN LET message_hash == sha256(message)
         IN  Tup([p \in 1..Min(8 * EntrySize, Len(message_hash) * 8) |->
                    LET i == p - 1
                        bit_value == (message_hash[(i \div 8) + 1] \div Pow2(i % 8)) % 2
                    IN  sha256(message \o Str(i) \o <<bit_value>>)])
    ELSE IF scheme = "sphincs"
    THEN LET r_value == sha256(message \o private_key.seed)
             root == sha256(r_value \o private_key.sk_seed)
         IN  [R |-> r_value, root |-> root,
              path |-> Join(Tup([k \in 1..PathRepeat |-> sha256(root \o message)]))]
    ELSE LET c == sha256(message \o private_key.rho)
         IN  [c |-> c,
              z |-> Tup([k \in 1..Len(private_key.s) |-> sha256(c \o private_key.s[k])])]

\* lines 154-157, MockSignature.verify
MockVerify(message, signature, public_key) == TRUE

\* lines 192-253: the private key a sign request carries
SignParse(scheme, private_key) ==
    IF scheme = "lamport"
    THEN LET key_bytes == Unhexlify(private_key)
         IN  IF key_bytes.exc # "none" THEN key_bytes
             ELSE Ok(Chunks(key_bytes.value, EntrySize))
    ELSE IF scheme = "sphincs"
    THEN LET key_bytes == Unhexlify(private_key)
         IN  IF key_bytes.exc # "none" THEN key_bytes
             ELSE Ok([seed |-> Slice(key_bytes.value, 0, EntrySize),
                      sk_seed |-> Slice(key_bytes.value, EntrySize, 2 * EntrySize),
                      prf_seed |-> Slice(key_bytes.value, 2 * EntrySize, 3 * EntrySize)])
    ELSE LET key_bytes == B64Decode(private_key)
         IN  IF key_bytes.exc # "none" THEN key_bytes
             ELSE Ok([rho |-> Slice(key_bytes.value, 0, EntrySize),
                      s |-> Chunks(Slice(key_bytes.value, EntrySize, Len(key_bytes.value)),
                                   PolynomialSize)])

\* lines 260-282: the signature as the sign response carries it
SignFormat(scheme, signature) ==
    IF scheme = "lamport" THEN Hexlify(Join(signature))
    ELSE IF scheme = "sphincs"
    THEN Hexlify(signature.R \o signature.root \o signature.path)
    ELSE B64Encode(signature.c \o Join(signature.z))

\* lines 325-447: the signature and the public key a verify request carries; the Lamport
\* public key is the list of its entries, entry i that of position i // 2, bit i % 2
VerifyParse(scheme, signature, public_key) ==
    LET sig_bytes == IF scheme = "dilithium" THEN B64Decode(signature)
                     ELSE Unhexlify(signature)
        key_bytes == IF scheme = "dilithium" THEN B64Decode(public_key)
                     ELSE Unhexlify(public_key)
    IN  IF sig_bytes.exc # "none" THEN sig_bytes
        ELSE IF key_bytes.exc # "none" THEN key_bytes
        ELSE IF scheme = "lamport"
        THEN Ok([signature |-> Chunks(sig_bytes.value, EntrySize),
                 public_key |->
                    [salt |-> Slice(key_bytes.value, 0, EntrySize),
                     entries |-> Chunks(Slice(key_bytes.value, EntrySize,
                                              Len(key_bytes.value)), EntrySize)]])
        ELSE IF scheme = "sphincs"
        THEN Ok([signature |->
                    [R |-> Slice(sig_bytes.value, 0, EntrySize),
                     root |-> Slice(sig_bytes.value, EntrySize, 2 * EntrySize),
                     path |-> Slice(sig_bytes.value, 2 * EntrySize, Len(sig_bytes.value))],
                 public_key |->
                    [seed |-> Slice(key_bytes.value, 0, EntrySize),
                     root |-> Slice(key_bytes.value, EntrySize, 2 * EntrySize)]])
        ELSE LET z_bytes == Slice(sig_bytes.value, CBytesSize, Len(sig_bytes.value))
                 starts == SelectSeq(Range(Max(2, Len(z_bytes) \div PolynomialSize)),
                                     LAMBDA i : i * PolynomialSize < Len(z_bytes))
             IN  Ok([signature |->
                        [c |-> Slice(sig_bytes.value, 0, CBytesSize),
                         z |-> Tup([k \in 1..Len(starts) |->
                                    Slice(z_bytes, starts[k] * PolynomialSize,
                                          (starts[k] + 1) * PolynomialSize)])],
                     public_key |->
                        [rho |-> Slice(key_bytes.value, 0, EntrySize),
                         t |-> Chunks(Slice(key_bytes.value, EntrySize,
                                            Len(key_bytes.value)), PolynomialSize)]])

\* lines 165-166: the hard-coded keys, 64 hexadecimal digits for one entry
HardPrivate == Tup([k \in 1..(2 * EntrySize) |-> HexDigit((k - 1) % 16)])

HardPublic == Tup([k \in 1..(2 * EntrySize) |-> HexDigit(15 - ((k - 1) % 16))])

\* the messages of the requests: "", "a", "01", "01ab" and one letter outside ASCII
WebMessages == {<<>>, <<97>>, <<48, 49>>, <<48, 49, 97, 98>>, <<233>>}

\* the texts a client sends in place of a key or a signature it was given: "g", "0123"
OtherTexts == {<<103>>, <<48, 49, 50, 51>>}

\* lines 160-171: POST /keypair ignores its request
generate_keypair ==
    /\ web.pc = "none"
    /\ web' = [pc |-> "keys", private_key |-> HardPrivate, public_key |-> HardPublic]
    /\ UNCHANGED <<tables, arith, flags, regs, frame, heap, lamport>>

\* lines 174-303: POST /sign; every exception becomes a response of status 500
sign_message(scheme, message, encoding, private_key) ==
    /\ web.pc = "keys"
    /\ web' =
        LET message_bytes == parse_message(message, encoding)
            key == SignParse(scheme, private_key)
            sent == [scheme |-> scheme, message |-> message, encoding |-> encoding,
                     private_key |-> private_key]
        IN  IF message_bytes.exc # "none"
            THEN [pc |-> "failed", request |-> sent,
                  response |-> [status |-> 500, detail |-> message_bytes.exc]]
            ELSE IF key.exc # "none"
            THEN [pc |-> "failed", request |-> sent,
                  response |-> [status |-> 500, detail |-> key.exc]]
            ELSE [pc |-> "signed", public_key |-> web.public_key, signed |-> sent,
                  signature |-> SignFormat(scheme,
                                    MockSign(scheme, message_bytes.value, key.value))]
    /\ UNCHANGED <<tables, arith, flags, regs, frame, heap, lamport>>

\* lines 306-461: POST /verify for the scheme the signature was made with
verify_signature(message, encoding, signature, public_key) ==
    /\ web.pc = "signed"
    /\ web' =
        LET message_bytes == parse_message(message, encoding)
            parsed == VerifyParse(web.signed.scheme, signature, public_key)
            sent == [scheme |-> web.signed.scheme, message |-> message,
                     encoding |-> encoding, signature |-> signature,
                     public_key |-> public_key]
        IN  [pc |-> "verified", public_key |-> web.public_key, signed |-> web.signed,
             signature |-> web.signature, request |-> sent,
             response |->
                IF message_bytes.exc # "none"
                THEN [status |-> 500, detail |-> message_bytes.exc]
                ELSE IF parsed.exc # "none"
                THEN [status |-> 500, detail |-> parsed.exc]
                ELSE [status |-> 200,
                      is_valid |-> MockVerify(message_bytes.value, parsed.value.signature,
                                              parsed.value.public_key)]]
    /\ UNCHANGED <<tables, arith, flags, regs, frame, heap, lamport>>

(***************************************************************************)
(* WebSpec: a client that asks for a key pair, has a message signed and    *)
(* sends a verify request.                                                  *)
(***************************************************************************)
WebNext ==
    \/ generate_keypair
    \/ /\ web.pc = "keys"
       /\ \E scheme \in SignatureScheme, message \in WebMessages, encoding \in Encodings,
             private_key \in {web.private_key} \cup OtherTexts :
                sign_message(scheme, message, encoding, private_key)
    \/ /\ web.pc = "signed"
       /\ \E message \in WebMessages, encoding \in Encodings,
             signature \in {web.signature} \cup OtherTexts,
             public_key \in {web.public_key} \cup OtherTexts :
                verify_signature(message, encoding, signature, public_key)

WebSpec == Init /\ [][WebNext]_vars

(***************************************************************************)
(* Properties of the hash calls.                                            *)
(***************************************************************************)
Done(t) == frame[t].pc = "done"

\* the digest of the call of thread t, evaluated at once in arithmetic ar under schedule sched
Alone(t, ar, sched) == Hash(tables, ar, sched, frame[t].alg, frame[t].data0, frame[t].n)

\* C5: a hash call returns the bytes the same call returns when its parallel loops run
\* in sequential order, whatever the order they ran in
C5_Determinism ==
    \A t \in Threads : Done(t) => frame[t].result = Alone(t, arith, "fwd")

\* C6: a digest returned for digest_size n has exactly n bytes
C6_OutputLength ==
    \A t \in Threads :
        Done(t) /\ frame[t].result.exc = "none" => Len(frame[t].result.value) = frame[t].n

\* a grover digest whose size is no multiple of 4 has been returned
C6_Witness ==
    \E t \in Threads :
        /\ Done(t)
        /\ frame[t].result.exc = "none"
        /\ frame[t].alg = "grover"
        /\ frame[t].n % 4 # 0
        /\ frame[t].n > 4

\* C7: every hash call with digest_size >= 1 returns a digest: none ends in an exception
C7_Totality ==
    \A t \in Threads : Done(t) /\ frame[t].n >= 1 => frame[t].result.exc = "none"

\* C8: the hash of the empty input is the hash of the single byte 0x00
C8_EmptyRemap ==
    \A t \in Threads :
        Done(t) /\ frame[t].data0 = <<>> =>
            frame[t].result = Hash(tables, arith, frame[t].sched, frame[t].alg, <<0>>, frame[t].n)

\* a digest of the empty input has been returned, of a size that shows the state
C8_Witness ==
    \E t \in Threads :
        /\ Done(t)
        /\ frame[t].data0 = <<>>
        /\ frame[t].result.exc = "none"
        /\ frame[t].n >= 4

\* C9: the digest of the running build is the digest of the same code evaluated with
\* every intermediate reduced modulo 2^32
C9_BackendAgreement ==
    \A t \in Threads : Done(t) => frame[t].result = Alone(t, "uint32", frame[t].sched)

\* C10: a call interleaved with another returns the digest it returns alone, and the
\* module-level tables and the input keep their values
C10_NoInterference ==
    /\ tables = Tables0
    /\ \A t \in Threads :
            Done(t) => /\ frame[t].result = Alone(t, arith, frame[t].sched)
                       /\ frame[t].data = Remap(frame[t].data0)

\* both threads have returned a digest, of different algorithms
C10_Witness ==
    /\ Done("t1") /\ Done("t2")
    /\ frame["t1"].alg # frame["t2"].alg
    /\ frame["t1"].result.exc = "none" /\ frame["t2"].result.exc = "none"

\* C17: the hybrid digest of an input differs from the grover digest and from the shor
\* digest of the same input at the same digest size
C17_HybridDiffers ==
    \A t \in Threads :
        Done(t) /\ frame[t].alg = "hybrid" /\ frame[t].result.exc = "none" =>
            /\ frame[t].result
                    # Hash(tables, arith, frame[t].sched, "grover", frame[t].data0, frame[t].n)
            /\ frame[t].result
                    # Hash(tables, arith, frame[t].sched, "shor", frame[t].data0, frame[t].n)

\* C20: in the shor hash the pair-mixing loop that follows the XOR of a chunk leaves the
\* same state in whichever order its iterations run: here for the first chunk of the
\* block about to be absorbed, in sequential and in reverse order
C20_PairLoopOrder ==
    \A t \in Threads :
        /\ frame[t].alg = "shor"
        /\ frame[t].pc = "absorb"
        /\ frame[t].todo # <<>>
        /\ Len(heap[frame[t].buf]) > 0
        => ShorChunk(tables, arith, "fwd", heap[frame[t].buf], Head(frame[t].todo), 0)
            = ShorChunk(tables, arith, "rev", heap[frame[t].buf], Head(frame[t].todo), 0)

\* C21: in the hybrid hash the byte-packing loop and the loop over the state words of a
\* final mixing round leave the same state in whichever order their iterations run:
\* here the packing of the interleaved bytes and the first round on the packed state,
\* in sequential and in reverse order
C21_HybridLoopOrder ==
    \A t \in Threads :
        /\ frame[t].pc = "hpack" =>
                HybridPack("fwd", HybridInterleave("fwd", frame[t].g, frame[t].s, frame[t].n),
                           frame[t].n)
                    = HybridPack("rev", HybridInterleave("fwd", frame[t].g, frame[t].s,
                                                         frame[t].n), frame[t].n)
        /\ frame[t].pc = "hmix" =>
                HybridMixRound(arith, "fwd", heap[frame[t].buf])
                    = HybridMixRound(arith, "rev", heap[frame[t].buf])

\* orders of the indices 0..n-1 other than the sequential one: reversed, rotated by one,
\* and odd indices before even ones
WordOrders(n) ==
    { Order("rev", n),
      Tup([p \in 1..n |-> p % n]),
      Tup([p \in 1..n |-> IF 2 * p - 1 < n THEN 2 * p - 1 ELSE 2 * (p - 1 - n \div 2)]) }

\* a grover call is about to absorb a chunk
GroverAbsorbing(t) ==
    frame[t].alg = "grover" /\ frame[t].pc = "absorb" /\ frame[t].todo # <<>>

\* C22: in the grover hash the per-word update of a chunk and the diffusion pass that
\* follows give the same state in whichever order the word indices are processed, and
\* the chunks are applied in input order, the length chunk last
C22_GroverWordOrder ==
    \A t \in Threads :
        GroverAbsorbing(t) =>
            /\ \A order \in WordOrders(Len(heap[frame[t].buf])) :
                    GroverChunkIn(tables, arith, order, heap[frame[t].buf], Head(frame[t].todo))
                        = GroverChunkIn(tables, arith, Range(Len(heap[frame[t].buf])),
                                        heap[frame[t].buf], Head(frame[t].todo))
            /\ \E k \in 0..Len(frame[t].data) :
                    /\ Len(frame[t].todo) = k + 1
                    /\ \A q \in 1..k :
                            frame[t].todo[q]
                                = Store(LoadChunk(Padded(frame[t].data, 4),
                                                  Len(Padded(frame[t].data, 4)) - 4 * (k - q + 1)))
            /\ frame[t].todo[Len(frame[t].todo)] = Store(FromNat(Len(frame[t].data)))

\* a grover call on five state words has absorbed its two data chunks and is about to
\* absorb the length chunk
C22_Witness ==
    \E t \in Threads :
        /\ GroverAbsorbing(t)
        /\ frame[t].n = 5
        /\ frame[t].data = <<1, 2, 3, 4, 5>>
        /\ Len(frame[t].todo) = 1
        /\ heap[frame[t].buf] # GroverInit(tables, 5)

\* C24: byte p of a grover digest is byte p mod 4, least significant first, of word
\* p div 4 of the final state, for every position p of every digest_size
C24_GroverSerialization ==
    \A t \in Threads :
        frame[t].alg = "grover" /\ frame[t].pc = "output" =>
            \A p \in 0..(frame[t].n - 1) :
                GroverOutput(heap[frame[t].buf], frame[t].n)[p + 1]
                    = (heap[frame[t].buf][(p \div 4) + 1][((p % 4) \div 2) + 1]
                            \div Pow2(8 * (p % 2))) % 256

\* C25: in every family the state array of a call with digest size n has ceil(n / 4)
\* words, from its creation to the output
C25_StateLength ==
    \A t \in Threads :
        frame[t].pc \in {"absorb", "hmix", "output"} =>
            4 * Len(heap[frame[t].buf]) \in frame[t].n..(frame[t].n + 3)

\* C26: the final mixing of hybrid is not a no-op for any digest_size: the digest is never
\* the byte-interleave of the two half digests, also when the state has a single word
C26_HybridMixes ==
    \A t \in Threads :
        frame[t].alg = "hybrid" /\ frame[t].pc = "hmix" =>
            /\ HybridMix(arith, frame[t].sched, heap[frame[t].buf]) # heap[frame[t].buf]
            /\ HybridOutput(HybridMix(arith, frame[t].sched, heap[frame[t].buf]), frame[t].n)
                    # HybridInterleave("fwd", frame[t].g, frame[t].s, frame[t].n)

\* byte p of the buffer that was packed into the state array st
PackedByte(st, p) == (st[(p \div 4) + 1][((p % 4) \div 2) + 1] \div Pow2(8 * (p % 2))) % 256

\* the hybrid call of thread t has reassembled its buffer and packed it
Assembled(t) == frame[t].alg = "hybrid" /\ frame[t].pc = "hmix"

\* C27: before the final mixing, with h = digest_size div 2, G the grover digest of
\* 0x01 || data and S the shor digest of 0x02 || data, both of size h, the buffer has
\* byte 2i = G[i] and byte 2i+1 = S[i] for i < h, and for an odd digest_size its last
\* byte is G[h-1] XOR S[h-1]
C27_HybridAssembly ==
    \A t \in Threads :
        Assembled(t) =>
            LET h == frame[t].n \div 2
                G == numba_enhanced_grover_hash(tables, arith, frame[t].sched,
                                                <<1>> \o frame[t].data, h).value
                S == numba_enhanced_shor_hash(tables, arith, frame[t].sched,
                                              <<2>> \o frame[t].data, h).value
            IN  /\ \A i \in 0..(h - 1) :
                        /\ PackedByte(heap[frame[t].buf], 2 * i) = G[i + 1]
                        /\ PackedByte(heap[frame[t].buf], 2 * i + 1) = S[i + 1]
                /\ frame[t].n % 2 = 1 =>
                        PackedByte(heap[frame[t].buf], frame[t].n - 1) = XorLimb(G[h], S[h])

\* a hybrid call of odd digest_size has assembled a buffer from a grover half that is not
\* all zeros, under the reverse schedule
C27_Witness ==
    \E t \in Threads :
        /\ Assembled(t)
        /\ frame[t].n % 2 = 1
        /\ frame[t].sched = "rev"
        /\ \E i \in 1..Len(frame[t].g) : frame[t].g[i] # 0
        /\ frame[t].g # frame[t].s

(***************************************************************************)
(* Properties of the Lamport signature.                                     *)
(***************************************************************************)
\* the caller verified exactly what sign returned, under the key pair generated
Untampered == lamport.pc = "verified" /\ lamport.tamper = NoTamper

\* the digest the object computes of a message
Digest(message) == DiracHash_hash(lamport.hash_algorithm, message)

\* C1: verify(m, sign(m, private_key), public_key) returns True, under every algorithm name
C1_RoundTrip ==
    Untampered /\ lamport.checked = lamport.message => lamport.outcome = Ok(TRUE)

\* a signature of a message with a nonzero digest has been verified under improved_shor
C1_Witness ==
    /\ Untampered
    /\ lamport.checked = lamport.message
    /\ lamport.hash_algorithm = "improved_shor"
    /\ \E i \in 0..(NBits - 1) : VerifyBit(Digest(lamport.message), i) = 1
    /\ lamport.outcome = Ok(TRUE)

\* C2 as stated: verify(m2, sign(m, private_key), public_key) returns False for every m2 # m
C2_AnyOtherMessage ==
    Untampered /\ lamport.checked # lamport.message => lamport.outcome = Ok(FALSE)

\* C2 amended: verify(m2, sign(m, private_key), public_key) returns False when the digests
\* of m2 and m differ and the two public entries of every position differ
C2_OtherDigest ==
    /\ Untampered
    /\ Digest(lamport.checked) # Digest(lamport.message)
    /\ \A i \in DOMAIN lamport.public_key : lamport.public_key[i][1] # lamport.public_key[i][2]
    => lamport.outcome = Ok(FALSE)

\* a message of another digest has been checked against the signature and rejected
C2_Witness ==
    /\ Untampered
    /\ Digest(lamport.checked) # Digest(lamport.message)
    /\ lamport.outcome = Ok(FALSE)

\* the caller replaced one element and verified the signed message
Replaced ==
    /\ lamport.pc = "verified"
    /\ lamport.tamper.kind = "replace"
    /\ lamport.checked = lamport.message

C4_Malformed ==
    /\ lamport.pc = "verified"
       /\ (Len(lamport.signature) # NBits \/ DOMAIN lamport.public_key # 0..(NBits - 1))
       => lamport.outcome = Raise("InvalidKeyMaterial")
    /\ lamport.pc = "failed" => lamport.outcome = Raise("InvalidKeyMaterial")


\* bit i of a digest, most significant bit of each byte first: byte i div 8, mask 1 << (7 - i mod 8)
MsbFirst(message_digest, i) == (message_digest[(i \div 8) + 1] \div Pow2(7 - (i % 8))) % 2

\* sign has returned and the caller has altered nothing
Signed == lamport.pc \in {"signed", "verified"} /\ lamport.tamper = NoTamper

\* C11: sign returns one element per bit position, in position order, element i being
\* private_key[i][b_i] with b_i bit i of the digest of the message, most significant bit
\* of each byte first; verify extracts b_i by the same rule
C11_BitSelection ==
    Signed =>
        /\ Len(lamport.signature) = NBits
        /\ \A i \in 0..(NBits - 1) :
                /\ lamport.signature[i + 1]
                        = lamport.private_key[i][MsbFirst(Digest(lamport.message), i) + 1]
                /\ VerifyBit(Digest(lamport.message), i) = MsbFirst(Digest(lamport.message), i)

\* a message has been signed whose digest has a byte that reads differently from its two ends
C11_Witness ==
    /\ Signed
    /\ \E i \in 0..(NBits - 1) :
            MsbFirst(Digest(lamport.message), i)
                # MsbFirst(Digest(lamport.message), 8 * (i \div 8) + 7 - (i % 8))
    /\ \E i \in 0..(NBits - 1) : lamport.private_key[i][1] # lamport.private_key[i][2]

\* generate_keypair has returned and the caller has removed no key entry
KeysMade ==
    /\ lamport.pc \in {"keys", "signed", "verified"}
    /\ lamport.tamper.kind \notin {"drop_private", "drop_public"}

C13_Metadata ==
    lamport.pc = "keys" /\ lamport.tamper = NoTamper =>
        /\ Cardinality(DOMAIN lamport.private_key) - 1 = NBits
        /\ Cardinality(DOMAIN lamport.public_key) - 1 = NBits
        /\ \E k \in DOMAIN lamport.private_key : k \notin 0..(NBits - 1)
        /\ \E k \in DOMAIN lamport.public_key : k \notin 0..(NBits - 1)

\* C14: an identifier that is none of the six names is rejected when the LamportSignature
\* is constructed, so no instance holds one, and no later operation of an instance fails
\* with UnsupportedAlgorithm
C14_RejectedAtConstruction ==
    lamport.pc # "none" =>
        /\ lamport.hash_algorithm \in Algorithms
        /\ lamport.outcome # Raise("UnsupportedAlgorithm")

\* the signature a first use of the private key returns for a message
FirstUse(private_key, message) ==
    Tup([p \in 1..NBits |-> private_key[p - 1][MsbFirst(Digest(message), p - 1) + 1]])

\* a step of sign, and a step of verify
SignStep == lamport.pc \in {"keys", "signed", "verified"} /\ lamport'.uses = lamport.uses + 1

VerifyStep == lamport.pc = "signed" /\ lamport'.pc = "verified"

\* C15: a sign with a private key that has signed before succeeds and returns the signature
\* a first use returns; sign and verify leave the private key, the public key, the
\* signature passed in and the instance as they were
C15_NoOneTimeState ==
    [][/\ SignStep =>
            /\ lamport'.private_key = lamport.private_key
            /\ lamport'.public_key = lamport.public_key
            /\ lamport'.hash_algorithm = lamport.hash_algorithm
            /\ lamport.uses >= 1 =>
                    /\ lamport'.pc = "signed"
                    /\ lamport'.signature = FirstUse(lamport.private_key, lamport'.message)
       /\ VerifyStep =>
            /\ lamport'.private_key = lamport.private_key
            /\ lamport'.public_key = lamport.public_key
            /\ lamport'.signature = lamport.signature
            /\ lamport'.hash_algorithm = lamport.hash_algorithm]_vars

\* a private key has signed a second time, a message of nonzero digest, and the second
\* signature has been verified
C15_Witness ==
    /\ lamport.pc = "verified"
    /\ lamport.uses = 2
    /\ lamport.tamper = NoTamper
    /\ lamport.checked = lamport.message
    /\ lamport.outcome = Ok(TRUE)
    /\ \E i \in 0..(NBits - 1) : MsbFirst(Digest(lamport.message), i) = 1

(***************************************************************************)
(* Properties of the backend selection.                                     *)
(***************************************************************************)
\* C16: a call of optimized_* runs the extension function whenever the extension modules
\* were imported, otherwise the numba-compiled function, otherwise the same function as
\* plain Python with its loops in sequential order; the flags are never written after
\* the import, and a call uses the backend the call before it used
C16_BackendOrder ==
    /\ [](\A t \in Threads : frame[t].pc # "idle" =>
            /\ flags.c => frame[t].backend = "native"
            /\ ~flags.c /\ flags.numba => frame[t].backend = "jit"
            /\ ~flags.c /\ ~flags.numba =>
                    frame[t].backend = "python" /\ frame[t].sched = "fwd")
    /\ [][/\ flags' = flags
          /\ \A t \in Threads :
                frame[t].pc # "idle" /\ frame'[t].pc # "idle" =>
                    frame'[t].backend = frame[t].backend]_vars

\* a process with both the extension modules and numba has returned a digest of a call
C16_Witness ==
    /\ flags.c /\ flags.numba
    /\ frame["t1"].pc = "done"
    /\ frame["t1"].backend = "native"
    /\ frame["t1"].result.exc = "none"
    /\ frame["t1"].n >= 4

(***************************************************************************)
(* Properties of mix_bits.                                                  *)
(***************************************************************************)
\* C19: for arguments below 2^32 both values mix_bits returns are below 2^32, before any
\* store truncates them; the second is also the value its last rotate_left was passed
C19_Word32 ==
    regs.pc = "ret" /\ Fits32(regs.a) /\ Fits32(regs.b) =>
        Fits32(regs.ra) /\ Fits32(regs.rb)

(***************************************************************************)
(* Properties of the shor permutation.                                      *)
(***************************************************************************)
\* C23: for every state size n >= 1 the map i -> (i * 7 + 1) mod n is a bijection on
\* 0..n-1, so after the post-block step every word j = (i * 7 + 1) mod n has been written
\* exactly once, with temp[i] XOR rotl(temp[(i * 5 + 3) mod n], 13)
C23_Permutation ==
    regs.pc = "permuted" =>
        LET n == Len(regs.temp)
        IN  /\ \A j \in 0..(n - 1) :
                    Cardinality({i \in 0..(n - 1) : (i * 7 + 1) % n = j}) = 1
            /\ \A i \in 0..(n - 1) :
                    Get(regs.state, (i * 7 + 1) % n)
                        = Xor(Get(regs.temp, i),
                              rotate_left(arith, Get(regs.temp, (i * 5 + 3) % n), 13))

(***************************************************************************)
(* Properties of the Lamport signature under an adversary.                  *)
(***************************************************************************)
\* the adversary's list has been verified against the message it was built for
Forged ==
    /\ lamport.pc = "verified"
    /\ lamport.tamper.kind = "forge"
    /\ lamport.checked = lamport.tamper.target

\* C28: after two sign calls with one private key, for every message whose digest agrees
\* at each bit position with the digest of the first or of the second message signed, a
\* list built only from elements of the two signatures is accepted by verify
C28_ReuseForgery ==
    /\ Forged
    /\ lamport.earlier # NoEarlier
    /\ \A i \in 0..(NBits - 1) :
            MsbFirst(Digest(lamport.checked), i)
                \in {MsbFirst(Digest(lamport.earlier.message), i),
                     MsbFirst(Digest(lamport.message), i)}
    => lamport.outcome = Ok(TRUE)

\* a list for a message that was never signed, of another digest than both messages
\* signed, has been accepted
C28_Witness ==
    /\ Forged
    /\ lamport.earlier # NoEarlier
    /\ Digest(lamport.checked) \notin {Digest(lamport.earlier.message), Digest(lamport.message)}
    /\ \A i \in 0..(NBits - 1) :
            MsbFirst(Digest(lamport.checked), i)
                \in {MsbFirst(Digest(lamport.earlier.message), i),
                     MsbFirst(Digest(lamport.message), i)}
    /\ \E i \in 0..(NBits - 1) : lamport.public_key[i][1] # lamport.public_key[i][2]
    /\ lamport.outcome = Ok(TRUE)

\* the secrets the one signature of the message signed has published
Published ==
    {lamport.private_key[i][MsbFirst(Digest(lamport.message), i) + 1] : i \in 0..(NBits - 1)}

\* the adversary's list for another digest has been verified after exactly one sign call
ForgedAfterOne ==
    /\ Forged
    /\ lamport.uses = 1
    /\ Digest(lamport.checked) # Digest(lamport.message)

\* C29 as stated: after exactly one sign call, a list of replayed secrets is not accepted
\* for a message whose digest differs from the signed one at a position whose two public
\* entries differ
C29_ReplayAnyKey ==
    /\ ForgedAfterOne
    /\ \E i \in 0..(NBits - 1) :
            /\ MsbFirst(Digest(lamport.checked), i) # MsbFirst(Digest(lamport.message), i)
            /\ lamport.public_key[i][1] # lamport.public_key[i][2]
    => lamport.outcome # Ok(TRUE)

\* C29: after exactly one sign call, a list of replayed secrets is rejected, with a normal
\* return of False, for a message whose digest differs from the signed one at a position
\* where no published secret hashes to the public entry of the message's bit
C29_SingleUse ==
    /\ ForgedAfterOne
    /\ \E i \in 0..(NBits - 1) :
            /\ MsbFirst(Digest(lamport.checked), i) # MsbFirst(Digest(lamport.message), i)
            /\ \A x \in Published :
                    Digest(x) # lamport.public_key[i][MsbFirst(Digest(lamport.checked), i) + 1]
    => lamport.outcome = Ok(FALSE)

\* a replayed list that matches the public key at some position where the digests differ
\* and has no secret for another such position has been rejected
C29_Witness ==
    /\ ForgedAfterOne
    /\ \E i \in 0..(NBits - 1) :
            /\ MsbFirst(Digest(lamport.checked), i) # MsbFirst(Digest(lamport.message), i)
            /\ \A x \in Published :
                    Digest(x) # lamport.public_key[i][MsbFirst(Digest(lamport.checked), i) + 1]
    /\ \E i \in 0..(NBits - 1) :
            /\ MsbFirst(Digest(lamport.checked), i) # MsbFirst(Digest(lamport.message), i)
            /\ Digest(lamport.signature[i + 1])
                    = lamport.public_key[i][MsbFirst(Digest(lamport.checked), i) + 1]
    /\ lamport.outcome = Ok(FALSE)

(***************************************************************************)
(* Properties of the web service.                                           *)
(***************************************************************************)
\* a verify request has been answered with a verdict
Answered == web.pc = "verified" /\ web.response.status = 200

\* the request differs from what was signed: in the message bytes, the signature or the key
Mismatch ==
    \/ parse_message(web.request.message, web.request.encoding)
            # parse_message(web.signed.message, web.signed.encoding)
    \/ web.request.signature # web.signature
    \/ web.request.public_key # web.public_key

\* C30: the verify endpoint answers is_valid = false when the message, the signature or
\* the public key of the request does not match what was signed
C30_VerifyEndpoint == Answered /\ Mismatch => web.response.is_valid = FALSE

=============================================================================
